---- MODULE Spec2Model ----
(***************************************************************************)
(* Model of bandcamp_scraper.py: the email extraction helpers, the domain  *)
(* trust filter, the album and external-site resolvers and the batch       *)
(* coordinator in main().                                                   *)
(*                                                                          *)
(* Representation of strings.  A host name is the sequence of its labels    *)
(* ("www.band.com" is <<"www","band","com">>), the empty string is <<>>.    *)
(* An address string "local@domain" is [local, domain]; a string without    *)
(* "@" has domain <<>>.  A text is a sequence of tokens.                    *)
(***************************************************************************)
EXTENDS Integers, Sequences, FiniteSets, TLC

\* ------------------------------------------------------------------ bounds
\* Number of album URLs the discover page offers in the batch specification.
MaxAlbums == 2

\* Longest candidate list handed to the domain trust filter on its own.
MaxCandidates == 3

\* ------------------------------------------------------- program constants
\* bio_text[:500]
NotesLimit == 500
\* len(email) > 254 is rejected
MaxEmailLen == 254
\* workers = max(1, min(args.workers, 10))
MinWorkers == 1
MaxWorkers == 10

\* ------------------------------------------------------------ string basics
EmptyStr == <<>>

\* str.lower() on one label, for the labels the inputs use.
LowerLabel(l) ==
    CASE l = "Band"  -> "band"
      [] l = "COM"   -> "com"
      [] l = "GMail" -> "gmail"
      [] OTHER       -> l

Lower(h) == [i \in DOMAIN h |-> LowerLabel(h[i])]

\* Length in characters of the strings the inputs use.
LabelLen(l) ==
    CASE l \in {"uk", "co", "me", "tv", "ee", "ai"}  -> 2
      [] l \in {"com", "net", "org", "COM", "app", "www"} -> 3
      [] l \in {"band", "Band", "info", "play"} -> 4
      [] l = "long255" -> 255
      [] OTHER -> 6

RECURSIVE HostLen(_)
HostLen(h) ==
    IF h = <<>> THEN 0
    ELSE LabelLen(Head(h)) + (IF Len(h) > 1 THEN 1 ELSE 0) + HostLen(Tail(h))

\* --------------------------------------------------------------- constants
PUBLIC_EMAIL_DOMAINS ==
    { <<"gmail","com">>, <<"googlemail","com">>,
      <<"outlook","com">>, <<"hotmail","com">>, <<"live","com">>, <<"msn","com">>,
      <<"icloud","com">>, <<"me","com">>, <<"mac","com">>,
      <<"yahoo","com">>, <<"ymail","com">>, <<"rocketmail","com">>,
      <<"protonmail","com">>, <<"proton","me">>, <<"tutanota","com">>, <<"tutamail","com">>,
      <<"aol","com">>, <<"mail","com">>, <<"zoho","com">>, <<"fastmail","com">>, <<"hey","com">>,
      <<"riseup","net">>, <<"disroot","org">> }

EXCLUDED_DOMAINS ==
    { <<"instagram","com">>, <<"facebook","com">>, <<"twitter","com">>, <<"x","com">>,
      <<"youtube","com">>, <<"tiktok","com">>, <<"soundcloud","com">>, <<"twitch","tv">>,
      <<"reverbnation","com">>, <<"spotify","com">>, <<"tumblr","com">>, <<"bandcamp","com">>,
      <<"bsky","app">>, <<"vk","com">>, <<"genius","com">>, <<"mixcloud","com">>, <<"discogs","com">>,
      <<"redbubble","com">>, <<"bigcartel","com">>, <<"storenvy","com">>, <<"limitedrun","com">>,
      <<"patreon","com">>, <<"linktr","ee">>, <<"bio","link">>, <<"beacons","ai">>,
      <<"play","google","com">>, <<"apps","apple","com">>, <<"itunes","apple","com">> }

\* ------------------------------------------------- tldextract (public suffix)
\* The public suffixes the inputs use.
PublicSuffixes ==
    { <<"com">>, <<"net">>, <<"org">>, <<"uk">>, <<"co","uk">>, <<"tv">>, <<"me">>,
      <<"app">>, <<"ee">>, <<"link">>, <<"ai">> }

LastLabels(h, k) == SubSeq(h, Len(h) - k + 1, Len(h))

\* Number of trailing labels of h that form its (longest) public suffix.
SuffixLen(h) ==
    LET ks == {k \in 1..Len(h) : Lower(LastLabels(h, k)) \in PublicSuffixes}
    IN  IF ks = {} THEN 0 ELSE CHOOSE k \in ks : \A j \in ks : j <= k

\* tldextract.extract(x).top_domain_under_public_suffix: the label before the
\* public suffix joined with the suffix, "" when either is missing.
RegisteredDomain(h) ==
    LET k == SuffixLen(h)
    IN  IF k = 0 \/ k = Len(h) THEN EmptyStr ELSE LastLabels(h, k + 1)

\* ------------------------------------------------------------ email helpers
NoAddr == [local |-> "", domain |-> <<>>]

LocalLen(l) == IF l = "" THEN 0 ELSE LabelLen(l)

AddrLen(e) == LocalLen(e.local) + (IF e.domain = <<>> THEN 0 ELSE 1) + HostLen(e.domain)

\* [A-Za-z]{2,} : the last label is alphabetic and at least two long.
IsAlphaTld(l) == l \notin {"c", "42"}

\* EMAIL_REGEX anchored at both ends, after the emptiness and length tests.
is_valid_email(e) ==
    /\ e # NoAddr
    /\ AddrLen(e) <= MaxEmailLen
    /\ e.local # ""
    /\ Len(e.domain) >= 2
    /\ IsAlphaTld(e.domain[Len(e.domain)])

\* A text token: a word, a plain address or an obfuscated "u [at] d [dot] t".
Word == [kind |-> "word", addr |-> NoAddr]
Plain(e) == [kind |-> "plain", addr |-> e]
Obfus(e) == [kind |-> "obfus", addr |-> e]

\* The set built by set(normal + deobfus), filtered through is_valid_email.
extract_emails(text) ==
    LET normal == {text[i].addr : i \in {j \in DOMAIN text : text[j].kind = "plain"}}
        deobfus == {text[i].addr : i \in {j \in DOMAIN text : text[j].kind = "obfus"}}
    IN  {e \in normal \cup deobfus : is_valid_email(e)}

\* Anchors.  href = [scheme, host, path, addr]; text is the visible text.
Href(scheme, host, path, addr) == [scheme |-> scheme, host |-> host, path |-> path, addr |-> addr]
MailtoHref(scheme, e) == Href(scheme, <<>>, "", e)
HttpHref(scheme, host, path) == Href(scheme, host, path, NoAddr)
RelHref(path) == Href("", <<>>, path, NoAddr)
Anchor(href, text) == [href |-> href, text |-> text]

LowerScheme(s) == IF s = "MAILTO" THEN "mailto" ELSE s

\* href.lower().startswith("mailto:"), href[7:].split("?")[0].strip().
extract_mailto_emails(anchors) ==
    {anchors[i].href.addr :
        i \in {j \in DOMAIN anchors :
                 /\ LowerScheme(anchors[j].href.scheme) = "mailto"
                 /\ is_valid_email(anchors[j].href.addr)}}

\* ------------------------------------------------------------ list(set(..))
\* The addresses the inputs use, in one fixed enumeration.
A_band    == [local |-> "info",    domain |-> <<"band", "com">>]
A_bandUp  == [local |-> "info",    domain |-> <<"Band", "COM">>]
A_contact == [local |-> "contact", domain |-> <<"band", "com">>]
A_sub     == [local |-> "booking", domain |-> <<"mail", "band", "co", "uk">>]
A_gmail   == [local |-> "fan",     domain |-> <<"GMail", "com">>]
A_other   == [local |-> "promo",   domain |-> <<"othersite", "net">>]
A_noTld   == [local |-> "info",    domain |-> <<"band">>]
A_long    == [local |-> "long255", domain |-> <<"band", "com">>]
A_noAt    == [local |-> "promo",   domain |-> <<>>]
A_suffix  == [local |-> "info",    domain |-> <<"co", "uk">>]

AddrUniverse ==
    <<A_band, A_bandUp, A_contact, A_sub, A_gmail, A_other, A_noTld, A_long, A_noAt,
      A_suffix>>

Rank(e) == CHOOSE i \in DOMAIN AddrUniverse : AddrUniverse[i] = e

\* list(set(S)): the elements of S in the iteration order of the set, which
\* the hash seed of the run decides; rev selects one of two opposite orders.
RECURSIVE ListOf(_, _)
ListOf(S, rev) ==
    IF S = {} THEN <<>>
    ELSE LET x == CHOOSE y \in S :
                    \A z \in S : IF rev THEN Rank(z) <= Rank(y) ELSE Rank(y) <= Rank(z)
         IN  <<x>> \o ListOf(S \ {x}, rev)

Range(s) == {s[i] : i \in DOMAIN s}

\* ------------------------------------------------------ domain trust filter
\* email.split('@')[-1].lower(), then its registered domain or itself.
EmailRegisteredDomain(e) ==
    LET email_domain == Lower(e.domain)
        extracted    == RegisteredDomain(email_domain)
    IN  IF extracted # EmptyStr THEN extracted ELSE email_domain

\* Mutant: an empty reference domain matches every email.
SameDomainBranchEmptyMatchesAll(e, website_domain) ==
    website_domain = EmptyStr \/ EmailRegisteredDomain(e) = Lower(website_domain)

SameDomainBranch(e, website_domain) ==
    website_domain # EmptyStr /\ EmailRegisteredDomain(e) = Lower(website_domain)

PublicProviderBranch(e) == EmailRegisteredDomain(e) \in PUBLIC_EMAIL_DOMAINS

\* Mutant: every address with an "@" is kept.
KeepEmailUnfiltered(e, website_domain) == e.domain # <<>>

\* One iteration of the loop of filter_emails_by_domain: is the email kept?
KeepEmail(e, website_domain) ==
    /\ e.domain # <<>>                          \* '@' in email
    /\ \/ SameDomainBranch(e, website_domain)
       \/ PublicProviderBranch(e)

\* Mutant: the skipped emails are removed from the list while it is being
\* iterated, so the email after a removed one is never looked at.
RECURSIVE filter_emails_by_domain_in_place(_, _)
filter_emails_by_domain_in_place(emails, website_domain) ==
    IF emails = <<>> THEN <<>>
    ELSE IF KeepEmail(Head(emails), website_domain)
    THEN <<Head(emails)>> \o filter_emails_by_domain_in_place(Tail(emails), website_domain)
    ELSE IF Tail(emails) = <<>> THEN <<>>
    ELSE <<Head(Tail(emails))>>
         \o filter_emails_by_domain_in_place(Tail(Tail(emails)), website_domain)

RECURSIVE filter_emails_by_domain(_, _)
filter_emails_by_domain(emails, website_domain) ==
    IF emails = <<>> THEN <<>>
    ELSE (IF KeepEmail(Head(emails), website_domain) THEN <<Head(emails)>> ELSE <<>>)
         \o filter_emails_by_domain(Tail(emails), website_domain)

\* ---------------------------------------------------------- album resolver
\* href.startswith("http")
StartsWithHttp(href) == href.scheme \in {"http", "https"}

\* Mutant: the Excluded Domains are not consulted.
IsExternalCandidateAnyDomain(a) ==
    /\ StartsWithHttp(a.href)
    /\ RegisteredDomain(a.href.host) # EmptyStr

\* The test of one #band-links anchor (lines 258-264).
IsExternalCandidate(a) ==
    /\ StartsWithHttp(a.href)
    /\ RegisteredDomain(a.href.host) # EmptyStr
    /\ RegisteredDomain(a.href.host) \notin EXCLUDED_DOMAINS

\* Index of the first qualifying #band-links anchor, 0 when there is none.
external_link(links) ==
    LET c == {i \in DOMAIN links : IsExternalCandidate(links[i])}
    IN  IF c = {} THEN 0 ELSE CHOOSE i \in c : \A j \in c : i <= j

\* soup.find_all("a"): the anchors of the page, those of #band-links included.
AllAnchors(page) == page.anchors \o page.links

\* Mutant: the biography is not cut.
NotesUncut(bio) ==
    IF bio.len = 0 THEN [of |-> "", len |-> 0] ELSE [of |-> bio.id, len |-> bio.len]

\* bio_text[:500] if bio_text else ""
Notes(bio) ==
    IF bio.len = 0 THEN [of |-> "", len |-> 0]
    ELSE [of |-> bio.id, len |-> IF bio.len <= NotesLimit THEN bio.len ELSE NotesLimit]

\* The dicts appended at lines 376-381 and 385-390.
ContactRecords(emails, page, album_url) ==
    [i \in DOMAIN emails |->
        [email |-> emails[i], name |-> page.name, notes |-> Notes(page.bio),
         source_url |-> album_url]]

\* Mutant: the mailto emails are added to the biography emails.
scrape_album_page_merged(page, rev) ==
    LET emails == ListOf(extract_emails(page.bio.text)
                         \cup extract_mailto_emails(AllAnchors(page)), rev)
    IN  IF emails # <<>> THEN [emails |-> emails, ext |-> 0, from |-> "bio"]
        ELSE [emails |-> <<>>, ext |-> external_link(page.links), from |-> "none"]

\* Mutant: the emails of the album page go through the domain filter, with
\* the domain of the external link as reference.
scrape_album_page_filtered(page, rev) ==
    LET ext == external_link(page.links)
        ref == IF ext = 0 THEN EmptyStr ELSE RegisteredDomain(page.links[ext].href.host)
        emails == filter_emails_by_domain(ListOf(extract_emails(page.bio.text), rev), ref)
        mailto_emails ==
            filter_emails_by_domain(ListOf(extract_mailto_emails(AllAnchors(page)), rev), ref)
    IN  IF emails # <<>> THEN [emails |-> emails, ext |-> 0, from |-> "bio"]
        ELSE IF mailto_emails # <<>> THEN [emails |-> mailto_emails, ext |-> 0, from |-> "mailto"]
        ELSE [emails |-> <<>>, ext |-> ext, from |-> "none"]

\* scrape_album_page after a successful fetch: (emails, index of ext link).
scrape_album_page(page, rev) ==
    LET emails == ListOf(extract_emails(page.bio.text), rev)
        mailto_emails == ListOf(extract_mailto_emails(AllAnchors(page)), rev)
    IN  IF emails # <<>> THEN [emails |-> emails, ext |-> 0, from |-> "bio"]
        ELSE IF mailto_emails # <<>> THEN [emails |-> mailto_emails, ext |-> 0, from |-> "mailto"]
        ELSE [emails |-> <<>>, ext |-> external_link(page.links), from |-> "none"]

\* ------------------------------------------------------ external resolver
\* website_domain of scrape_external_site (line 279).
WebsiteDomain(url) == RegisteredDomain(url.host)

\* "contact" in str.lower(), for the strings the inputs use.
HasContact(s) == s \in {"Contact", "contact us", "/contact", "/Contact-Us", "contact"}

\* "contact" in link_text or "contact" in link_href
IsContactLink(a) ==
    \/ HasContact(a.text)
    \/ HasContact(a.href.path)
    \/ HasContact(a.href.addr.local)

\* urljoin(r.url, href): an absolute href is kept, a relative one is resolved
\* against the final (post-redirect) URL of the main page.
urljoin(final, href) ==
    IF href.scheme = "" THEN Href("http", final, href.path, NoAddr) ELSE href

\* Lines 319-323: the link is a contact link and resolves to an http(s) URL.
IsContactCandidate(site, i) ==
    /\ IsContactLink(site.anchors[i])
    /\ StartsWithHttp(urljoin(site.final, site.anchors[i].href))

\* Index of the first contact candidate at or after position from, 0 if none.
NextContact(site, from) ==
    LET c == {i \in DOMAIN site.anchors : i >= from /\ IsContactCandidate(site, i)}
    IN  IF c = {} THEN 0 ELSE CHOOSE i \in c : \A j \in c : i <= j

\* A stage: extract, and filter when anything was extracted.
TextStage(page, website_domain, rev) ==
    filter_emails_by_domain(ListOf(extract_emails(page.text), rev), website_domain)

MailtoStage(page, website_domain, rev) ==
    filter_emails_by_domain(ListOf(extract_mailto_emails(page.anchors), rev), website_domain)

\* Mutant: mailto links first, text second.
PageStagesMailtoFirst(page, website_domain, rev) ==
    IF MailtoStage(page, website_domain, rev) # <<>>
    THEN MailtoStage(page, website_domain, rev)
    ELSE TextStage(page, website_domain, rev)

\* Lines 296-311 and 333-348: text first, mailto links second.
PageStages(page, website_domain, rev) ==
    IF TextStage(page, website_domain, rev) # <<>>
    THEN TextStage(page, website_domain, rev)
    ELSE MailtoStage(page, website_domain, rev)

\* ------------------------------------------------------------------ inputs
\* A fetched page: [status, text, anchors].  A contact page answers "ok" or
\* "fail" (any exception of lines 321-348, swallowed at line 350).
PageOf(status, text, anchors) == [status |-> status, text |-> text, anchors |-> anchors]
NoPage == PageOf("fail", <<>>, <<>>)

\* An external site: the answer to the main fetch (status, final host after
\* redirects, text, anchors) and, per anchor, the page its URL serves.
SiteOf(status, final, text, anchors, contacts) ==
    [status |-> status, final |-> final, text |-> text, anchors |-> anchors,
     contacts |-> contacts]
NoSite == SiteOf("fail", <<>>, <<>>, <<>>, <<>>)

BioOf(id, len, text) == [id |-> id, len |-> len, text |-> text]

\* An album page: the answer to the album fetch and the site its external
\* link leads to.
AlbumOf(status, name, bio, anchors, links, site) ==
    [status |-> status, name |-> name, bio |-> bio, anchors |-> anchors,
     links |-> links, site |-> site]

H_band      == <<"www", "band", "com">>
H_other     == <<"othersite", "net">>
H_insta     == <<"www", "instagram", "com">>
H_bandcamp  == <<"artist", "bandcamp", "com">>
H_play      == <<"play", "google", "com">>
H_localhost == <<"localhost">>

L_insta     == Anchor(HttpHref("https", H_insta, "/artist"), "Instagram")
L_bandcamp  == Anchor(HttpHref("https", H_bandcamp, "/music"), "Bandcamp")
L_band      == Anchor(HttpHref("http", H_band, "/"), "Website")
L_other     == Anchor(HttpHref("https", H_other, "/"), "Label")
L_play      == Anchor(HttpHref("https", H_play, "/store"), "App")
L_local     == Anchor(HttpHref("http", H_localhost, "/"), "Dev")
L_rel       == Anchor(RelHref("/merch"), "Merch")

M_band      == Anchor(MailtoHref("mailto", A_band), "Email")
M_bandUp    == Anchor(MailtoHref("MAILTO", A_bandUp), "Email")
M_other     == Anchor(MailtoHref("mailto", A_other), "Promo")
M_gmail     == Anchor(MailtoHref("mailto", A_gmail), "Fan mail")
M_contact   == Anchor(MailtoHref("mailto", A_contact), "Write us")
M_noTld     == Anchor(MailtoHref("mailto", A_noTld), "Broken")

C_rel       == Anchor(RelHref("/contact"), "Get in touch")
C_text      == Anchor(RelHref("/about"), "Contact")
C_abs       == Anchor(HttpHref("https", H_other, "/Contact-Us"), "Booking")
C_tel       == Anchor(Href("tel", <<>>, "", NoAddr), "contact us")
N_about     == Anchor(RelHref("/about"), "About")

\* Contact pages.
K_fail      == NoPage
K_empty     == PageOf("ok", <<Word>>, <<>>)
K_textBand  == PageOf("ok", <<Word, Plain(A_contact), Plain(A_other)>>, <<M_gmail>>)
K_mailto    == PageOf("ok", <<Plain(A_other)>>, <<M_band, M_other>>)
K_foreign   == PageOf("ok", <<Plain(A_other)>>, <<M_other>>)

\* External sites of the batch specification.
S_contact ==
    SiteOf("ok", H_band, <<Word, Plain(A_other)>>, <<N_about, C_rel, C_text>>,
           <<NoPage, K_fail, K_mailto>>)
S_main == SiteOf("ok", H_band, <<Obfus(A_sub), Plain(A_gmail)>>, <<>>, <<>>)

\* Album pages of the batch specification.
P_bio ==
    AlbumOf("ok", "Artist A", BioOf("bioA", 501, <<Word, Plain(A_band), Obfus(A_gmail)>>),
            <<M_other>>, <<L_band>>, S_main)
P_mailto ==
    AlbumOf("ok", "Artist B", BioOf("bioB", 120, <<Word>>), <<M_band>>, <<L_insta, L_band>>, S_main)
P_ext ==
    AlbumOf("ok", "Artist C", BioOf("", 0, <<>>), <<>>, <<L_insta, L_band, L_other>>, S_contact)
P_extFail ==
    AlbumOf("ok", "Artist D", BioOf("bioD", 40, <<Word>>), <<>>, <<L_band>>, NoSite)
P_extFault ==
    AlbumOf("ok", "Artist E", BioOf("bioE", 40, <<Word>>), <<>>, <<L_other>>,
            SiteOf("fault", <<>>, <<>>, <<>>, <<>>))
P_429 == AlbumOf("429", "", BioOf("", 0, <<>>), <<>>, <<>>, NoSite)
P_fail == AlbumOf("fail", "", BioOf("", 0, <<>>), <<>>, <<>>, NoSite)
P_fault == AlbumOf("fault", "", BioOf("", 0, <<>>), <<>>, <<>>, NoSite)

BatchPages == {P_bio, P_mailto, P_ext, P_extFail, P_extFault, P_429, P_fail, P_fault}

\* --workers values of the batch specification.
RequestedWorkers == {0, 2, 11}

\* Album pages of the resolver specification: every combination of the
\* options below behind a successful fetch, and the three failing fetches.
BioOptions ==
    { BioOf("", 0, <<>>),
      BioOf("bioW", 800, <<Word, Plain(A_noTld), Obfus(A_long)>>),
      BioOf("bioE", 500, <<Obfus(A_other), Word, Plain(A_bandUp)>>) }

AnchorOptions == { <<>>, <<M_noTld>>, <<M_gmail, M_band>>, <<M_other>> }

LinkOptions ==
    { <<>>,
      <<L_insta, L_bandcamp>>,
      <<L_rel, L_local, L_insta, L_band, L_other>>,
      <<L_play, L_band>>,
      <<L_other, L_band>> }

SiteTextOptions ==
    { <<Word>>, <<Plain(A_other), Word, Plain(A_suffix)>>,
      <<Plain(A_other), Obfus(A_gmail), Plain(A_bandUp)>> }

\* The pages served by the two followable contact links of a main page.
ContactPairs ==
    { <<K_fail, K_textBand>>, <<K_empty, K_mailto>>, <<K_fail, K_fail>>,
      <<K_foreign, K_mailto>>, <<K_mailto, K_fail>>, <<K_textBand, K_empty>> }

\* Anchors of the main page with, per anchor, the page its URL serves.
SiteAnchorOptions ==
    { [anchors |-> <<>>, contacts |-> <<>>],
      [anchors |-> <<M_other, M_band>>, contacts |-> <<NoPage, NoPage>>],
      [anchors |-> <<N_about, C_text>>, contacts |-> <<NoPage, K_mailto>>] }
    \cup
    { [anchors |-> <<M_contact, C_tel, C_rel, C_abs>>,
       contacts |-> <<NoPage, NoPage, kp[1], kp[2]>>] : kp \in ContactPairs }

ResolverSites ==
    { SiteOf("fail", <<>>, <<>>, <<>>, <<>>), SiteOf("fault", <<>>, <<>>, <<>>, <<>>) }
    \cup
    { SiteOf("ok", final, text, ac.anchors, ac.contacts) :
        final \in {H_band, H_other}, text \in SiteTextOptions, ac \in SiteAnchorOptions }

ResolverPages ==
    { P_429, P_fail, P_fault }
    \cup
    { AlbumOf("ok", "Artist R", bio, anchors, links, site) :
        bio \in BioOptions, anchors \in AnchorOptions, links \in LinkOptions,
        site \in ResolverSites }

\* Inputs of the filter specification: every candidate list of at most
\* MaxCandidates addresses, with each reference domain below.
ReferenceDomains ==
    { EmptyStr, <<"band", "com">>, <<"Band", "COM">>, <<"band", "co", "uk">>,
      <<"gmail", "com">> }

CandidateLists == UNION {[1..n -> Range(AddrUniverse)] : n \in 0..MaxCandidates}

FilterInputs ==
    [emails : CandidateLists, website_domain : ReferenceDomains]

\* ------------------------------------------------------------------- state
VARIABLES
    args_workers,    \* args.workers as given on the command line
    workers,         \* the clamped worker count
    pages,           \* what the web serves for each album URL (fixed per run)
    phase,           \* position of main(): discover, submit, collect, dedup, report, done
    album_urls,      \* the list returned by discover_album_urls
    nsub,            \* number of executor.submit calls made
    queue,           \* the executor's work queue (submitted, not yet started)
    pc,              \* position of each process_album call
    scan,            \* index of the contact link whose page is being fetched
    requests,        \* per task, the session.get calls issued so far
    result,          \* per task, the result dict of process_album
    entry,           \* futures found finished when as_completed was entered
    waiter,          \* futures finished since, in completion order
    results,         \* main's results list
    errors,          \* main's errors list
    unique_results,  \* main's unique_results list
    output,          \* the structured result printed at the end
    filter_args,     \* arguments of a call of filter_emails_by_domain on its own
    filter_pc,       \* position of that call: idle, call, returned, recalled
    filter_kept,     \* the list it returned
    filter_again     \* the list returned when called on filter_kept

filter_vars == <<filter_args, filter_pc, filter_kept, filter_again>>

vars == <<args_workers, workers, pages, phase, album_urls, nsub, queue, pc, scan,
          requests, result, entry, waiter, results, errors, unique_results, output,
          filter_vars>>

Albums == DOMAIN pages

\* workers = max(1, min(args.workers, 10))
ClampWorkers(n) ==
    LET m == IF n < MaxWorkers THEN n ELSE MaxWorkers
    IN  IF m > MinWorkers THEN m ELSE MinWorkers

NoOutput == [success |-> FALSE, total_albums_scraped |-> 0, results |-> <<>>, errors |-> <<>>]

\* The result dict at the start of process_album (lines 358-363).
EmptyResult == [emails |-> <<>>, error |-> "", rate_limited |-> FALSE]

InitCommon ==
    /\ workers = ClampWorkers(args_workers)
    /\ phase = "discover"
    /\ album_urls = <<>>
    /\ nsub = 0
    /\ queue = <<>>
    /\ pc = [a \in Albums |-> "unsubmitted"]
    /\ scan = [a \in Albums |-> 0]
    /\ requests = [a \in Albums |-> <<>>]
    /\ result = [a \in Albums |-> EmptyResult]
    /\ entry = {}
    /\ waiter = <<>>
    /\ results = <<>>
    /\ errors = <<>>
    /\ unique_results = <<>>
    /\ output = NoOutput

\* No call of the filter on its own.
FilterIdle ==
    /\ filter_args = [emails |-> <<>>, website_domain |-> EmptyStr]
    /\ filter_pc = "idle"
    /\ filter_kept = <<>>
    /\ filter_again = <<>>

\* A batch of at most MaxAlbums albums over the batch pages.
Init ==
    /\ args_workers \in RequestedWorkers
    /\ \E n \in 0..MaxAlbums : pages \in [1..n -> BatchPages]
    /\ InitCommon
    /\ FilterIdle

\* One album over the resolver pages, one worker.
InitResolver ==
    /\ args_workers = 1
    /\ pages \in [{1} -> ResolverPages]
    /\ InitCommon
    /\ FilterIdle

\* filter_emails_by_domain on its own, on every input of FilterInputs.
InitFilter ==
    /\ args_workers = 1
    /\ pages = <<>>
    /\ InitCommon
    /\ filter_args \in FilterInputs
    /\ filter_pc = "call"
    /\ filter_kept = <<>>
    /\ filter_again = <<>>

\* ------------------------------------------------------------- coordinator
\* Lines 425-426: discovery succeeds.  URLs are numbered in the order
\* list(collected_links) yields them.
DiscoverOk ==
    /\ phase = "discover"
    /\ album_urls' = [i \in 1..Cardinality(Albums) |-> i]
    /\ phase' = "submit"
    /\ UNCHANGED <<filter_vars, args_workers, workers, pages, nsub, queue, pc, scan, requests, result,
                   entry, waiter, results, errors, unique_results, output>>

\* Mutant: a failed discovery ends the run.
DiscoverFailAbort ==
    /\ phase = "discover"
    /\ errors' = Append(errors, "Discovery failed")
    /\ album_urls' = <<>>
    /\ phase' = "done"
    /\ UNCHANGED <<filter_vars, args_workers, workers, pages, nsub, queue, pc, scan, requests,
                   result, entry, waiter, results, unique_results, output>>

\* Lines 427-429: discovery raises.
DiscoverFail ==
    /\ phase = "discover"
    /\ errors' = Append(errors, "Discovery failed")
    /\ album_urls' = <<>>
    /\ phase' = "submit"
    /\ UNCHANGED <<filter_vars, args_workers, workers, pages, nsub, queue, pc, scan, requests, result,
                   entry, waiter, results, unique_results, output>>

\* Line 439: one executor.submit per URL, in list order.
Submit ==
    /\ phase = "submit"
    /\ nsub < Len(album_urls)
    /\ nsub' = nsub + 1
    /\ queue' = Append(queue, album_urls[nsub + 1])
    /\ pc' = [pc EXCEPT ![album_urls[nsub + 1]] = "queued"]
    /\ UNCHANGED <<filter_vars, args_workers, workers, pages, phase, album_urls, scan, requests, result,
                   entry, waiter, results, errors, unique_results, output>>

Submitted == {album_urls[i] : i \in 1..nsub}

\* Line 441: as_completed is entered; the futures already finished are
\* yielded first, in the iteration order of a set.
EnterCollect ==
    /\ phase = "submit"
    /\ nsub = Len(album_urls)
    /\ entry' = {a \in Submitted : pc[a] = "done"}
    /\ phase' = "collect"
    /\ UNCHANGED <<filter_vars, args_workers, workers, pages, album_urls, nsub, queue, pc, scan, requests,
                   result, waiter, results, errors, unique_results, output>>

\* Mutant: the error of the task is not collected.
AggregateDropError(a) ==
    /\ results' = results \o result[a].emails
    /\ errors' = errors
    /\ pc' = [pc EXCEPT ![a] = "aggregated"]

\* Mutant: results is overwritten instead of extended.
AggregateOverwrite(a) ==
    /\ results' = result[a].emails
    /\ errors' = IF result[a].error # "" THEN Append(errors, result[a].error) ELSE errors
    /\ pc' = [pc EXCEPT ![a] = "aggregated"]

\* Lines 442-452, the loop body for the future of album a.
Aggregate(a) ==
    /\ results' = results \o result[a].emails
    /\ errors' = IF result[a].error # "" THEN Append(errors, result[a].error) ELSE errors
    /\ pc' = [pc EXCEPT ![a] = "aggregated"]

CollectEntry(a) ==
    /\ phase = "collect"
    /\ a \in entry
    /\ entry' = entry \ {a}
    /\ Aggregate(a)
    /\ UNCHANGED <<filter_vars, args_workers, workers, pages, phase, album_urls, nsub, queue, scan,
                   requests, result, waiter, unique_results, output>>

CollectWaiter ==
    /\ phase = "collect"
    /\ entry = {}
    /\ waiter # <<>>
    /\ waiter' = Tail(waiter)
    /\ Aggregate(Head(waiter))
    /\ UNCHANGED <<filter_vars, args_workers, workers, pages, phase, album_urls, nsub, queue, scan,
                   requests, result, entry, unique_results, output>>

\* Mutant: the loop is left as soon as no finished future is waiting.
LeaveExecutorEarly ==
    /\ phase = "collect"
    /\ entry = {}
    /\ waiter = <<>>
    /\ phase' = "dedup"
    /\ UNCHANGED <<filter_vars, args_workers, workers, pages, album_urls, nsub, queue, pc, scan, requests,
                   result, entry, waiter, results, errors, unique_results, output>>

\* as_completed is exhausted and the with block is left (line 452).
LeaveExecutor ==
    /\ phase = "collect"
    /\ \A a \in Submitted : pc[a] = "aggregated"
    /\ phase' = "dedup"
    /\ UNCHANGED <<filter_vars, args_workers, workers, pages, album_urls, nsub, queue, pc, scan, requests,
                   result, entry, waiter, results, errors, unique_results, output>>

\* Lines 455-460.
RECURSIVE DedupLoop(_, _, _)
DedupLoop(rs, seen, unique) ==
    IF rs = <<>> THEN unique
    ELSE IF Head(rs).email \notin seen
         THEN DedupLoop(Tail(rs), seen \cup {Head(rs).email}, Append(unique, Head(rs)))
         ELSE DedupLoop(Tail(rs), seen, unique)

\* Mutant: no record is dropped.
DeduplicateNothing(rs) == rs

Deduplicate(rs) == DedupLoop(rs, {}, <<>>)

Dedup ==
    /\ phase = "dedup"
    /\ unique_results' = Deduplicate(results)
    /\ phase' = "report"
    /\ UNCHANGED <<filter_vars, args_workers, workers, pages, album_urls, nsub, queue, pc, scan, requests,
                   result, entry, waiter, results, errors, output>>

\* Lines 467-487.
Report ==
    /\ phase = "report"
    /\ output' = [success |-> TRUE, total_albums_scraped |-> Len(album_urls),
                  results |-> unique_results, errors |-> errors]
    /\ phase' = "done"
    /\ UNCHANGED <<filter_vars, args_workers, workers, pages, album_urls, nsub, queue, pc, scan, requests,
                   result, entry, waiter, results, errors, unique_results>>

\* ------------------------------------------------------------ worker tasks
Running == {a \in Albums : pc[a] \in {"album", "cooldown", "external", "contact"}}

Request(kind, href) == [kind |-> kind, href |-> href]
AlbumHref(a) == HttpHref("https", H_bandcamp, a)

\* process_album returns: the future is finished and as_completed, once
\* entered, is notified.
Return(a, res) ==
    /\ result' = [result EXCEPT ![a] = res]
    /\ pc' = [pc EXCEPT ![a] = "done"]
    /\ waiter' = IF phase = "collect" THEN Append(waiter, a) ELSE waiter

\* Mutant: the pool starts a thread for every queued call.
StartTaskUnbounded ==
    /\ queue # <<>>
    /\ pc' = [pc EXCEPT ![Head(queue)] = "album"]
    /\ queue' = Tail(queue)
    /\ requests' = [requests EXCEPT ![Head(queue)] = Append(@, Request("album", AlbumHref(Head(queue))))]
    /\ UNCHANGED <<filter_vars, args_workers, workers, pages, phase, album_urls, nsub, scan,
                   result, entry, waiter, results, errors, unique_results, output>>

\* A free worker thread takes the oldest queued call; process_album begins
\* and issues the album fetch (line 219).
StartTask ==
    /\ queue # <<>>
    /\ Cardinality(Running) < workers
    /\ pc' = [pc EXCEPT ![Head(queue)] = "album"]
    /\ queue' = Tail(queue)
    /\ requests' = [requests EXCEPT ![Head(queue)] = Append(@, Request("album", AlbumHref(Head(queue))))]
    /\ UNCHANGED <<filter_vars, args_workers, workers, pages, phase, album_urls, nsub, scan, result,
                   entry, waiter, results, errors, unique_results, output>>

\* The URL handed to scrape_external_site.
ExtUrl(a) == pages[a].links[external_link(pages[a].links)].href

\* Mutant: a 429 is handled like any other failed fetch.
AlbumRateLimitedUnflagged(a) ==
    /\ pc[a] = "album"
    /\ pages[a].status = "429"
    /\ result' = result
    /\ pc' = [pc EXCEPT ![a] = "cooldown"]
    /\ UNCHANGED <<filter_vars, args_workers, workers, pages, phase, album_urls, nsub, queue, scan,
                   requests, entry, waiter, results, errors, unique_results, output>>

\* The album fetch answers HTTP 429 (lines 220-222, 367-370): the task
\* enters time.sleep(5).
AlbumRateLimited(a) ==
    /\ pc[a] = "album"
    /\ pages[a].status = "429"
    /\ result' = [result EXCEPT ![a].rate_limited = TRUE]
    /\ pc' = [pc EXCEPT ![a] = "cooldown"]
    /\ UNCHANGED <<filter_vars, args_workers, workers, pages, phase, album_urls, nsub, queue, scan,
                   requests, entry, waiter, results, errors, unique_results, output>>

\* time.sleep(5) is over, process_album returns (lines 371-372).
CooldownEnd(a) ==
    /\ pc[a] = "cooldown"
    /\ Return(a, result[a])
    /\ UNCHANGED <<filter_vars, args_workers, workers, pages, phase, album_urls, nsub, queue, scan,
                   requests, entry, results, errors, unique_results, output>>

\* Mutant: the failed fetch is reported as an error of the task.
AlbumFailedAsError(a) ==
    /\ pc[a] = "album"
    /\ pages[a].status = "fail"
    /\ Return(a, [result[a] EXCEPT !.error = "Error scraping"])
    /\ UNCHANGED <<filter_vars, args_workers, workers, pages, phase, album_urls, nsub, queue,
                   scan, requests, entry, results, errors, unique_results, output>>

\* The album fetch fails otherwise (lines 223-226): nothing found, the brief
\* pause, return.
AlbumFailed(a) ==
    /\ pc[a] = "album"
    /\ pages[a].status = "fail"
    /\ Return(a, result[a])
    /\ UNCHANGED <<filter_vars, args_workers, workers, pages, phase, album_urls, nsub, queue, scan,
                   requests, entry, results, errors, unique_results, output>>

\* Processing the fetched page raises (lines 394-395).
AlbumFault(a) ==
    /\ pc[a] = "album"
    /\ pages[a].status = "fault"
    /\ Return(a, [result[a] EXCEPT !.error = "Error scraping"])
    /\ UNCHANGED <<filter_vars, args_workers, workers, pages, phase, album_urls, nsub, queue, scan,
                   requests, entry, results, errors, unique_results, output>>

\* The album page was fetched (lines 228-271, 374-392).  With emails from the
\* bio or the mailto links, or without an external link, the task returns;
\* otherwise scrape_external_site starts and, unless the domain is excluded
\* (line 280), issues the main fetch (line 286).
AlbumFetched(a) ==
    /\ pc[a] = "album"
    /\ pages[a].status = "ok"
    /\ \E rev \in BOOLEAN :
         LET r == scrape_album_page(pages[a], rev)
         IN  IF r.emails # <<>>
             THEN /\ Return(a, [result[a] EXCEPT !.emails = ContactRecords(r.emails, pages[a], a)])
                  /\ UNCHANGED requests
             ELSE IF r.ext # 0 /\ WebsiteDomain(ExtUrl(a)) \notin EXCLUDED_DOMAINS
             THEN /\ pc' = [pc EXCEPT ![a] = "external"]
                  /\ requests' = [requests EXCEPT ![a] = Append(@, Request("external", ExtUrl(a)))]
                  /\ UNCHANGED <<result, waiter>>
             ELSE /\ Return(a, result[a])
                  /\ UNCHANGED requests
    /\ UNCHANGED <<filter_vars, args_workers, workers, pages, phase, album_urls, nsub, queue, scan,
                   entry, results, errors, unique_results, output>>

\* The main fetch of the external site fails (lines 288-290).
ExternalFailed(a) ==
    /\ pc[a] = "external"
    /\ pages[a].site.status = "fail"
    /\ Return(a, result[a])
    /\ UNCHANGED <<filter_vars, args_workers, workers, pages, phase, album_urls, nsub, queue, scan,
                   requests, entry, results, errors, unique_results, output>>

\* Processing the main page raises; process_album records it (lines 394-395).
ExternalFault(a) ==
    /\ pc[a] = "external"
    /\ pages[a].site.status = "fault"
    /\ Return(a, [result[a] EXCEPT !.error = "Error scraping"])
    /\ UNCHANGED <<filter_vars, args_workers, workers, pages, phase, album_urls, nsub, queue, scan,
                   requests, entry, results, errors, unique_results, output>>

ContactUrl(a, i) == urljoin(pages[a].site.final, pages[a].site.anchors[i].href)

\* The main page was fetched (lines 292-326): text, then mailto links, then
\* the fetch of the first contact candidate.
ExternalFetched(a) ==
    /\ pc[a] = "external"
    /\ pages[a].site.status = "ok"
    /\ \E rev \in BOOLEAN :
         LET site == pages[a].site
             kept == PageStages(site, WebsiteDomain(ExtUrl(a)), rev)
             i    == NextContact(site, 1)
         IN  IF kept # <<>>
             THEN /\ Return(a, [result[a] EXCEPT !.emails = ContactRecords(kept, pages[a], a)])
                  /\ UNCHANGED <<requests, scan>>
             ELSE IF i # 0
             THEN /\ pc' = [pc EXCEPT ![a] = "contact"]
                  /\ scan' = [scan EXCEPT ![a] = i]
                  /\ requests' = [requests EXCEPT ![a] = Append(@, Request("contact", ContactUrl(a, i)))]
                  /\ UNCHANGED <<result, waiter>>
             ELSE /\ Return(a, result[a])
                  /\ UNCHANGED <<requests, scan>>
    /\ UNCHANGED <<filter_vars, args_workers, workers, pages, phase, album_urls, nsub, queue,
                   entry, results, errors, unique_results, output>>

\* Mutant: without kept emails the scan goes on to the next contact link.
ContactFetchedKeepScanning(a) ==
    /\ pc[a] = "contact"
    /\ pages[a].site.contacts[scan[a]].status = "ok"
    /\ \E rev \in BOOLEAN :
         LET kept == PageStages(pages[a].site.contacts[scan[a]], WebsiteDomain(ExtUrl(a)), rev)
             i    == NextContact(pages[a].site, scan[a] + 1)
         IN  IF kept = <<>> /\ i # 0
             THEN /\ scan' = [scan EXCEPT ![a] = i]
                  /\ requests' = [requests EXCEPT ![a] = Append(@, Request("contact", ContactUrl(a, i)))]
                  /\ UNCHANGED <<pc, result, waiter>>
             ELSE /\ Return(a, [result[a] EXCEPT !.emails = ContactRecords(kept, pages[a], a)])
                  /\ UNCHANGED <<requests, scan>>
    /\ UNCHANGED <<filter_vars, args_workers, workers, pages, phase, album_urls, nsub, queue,
                   entry, results, errors, unique_results, output>>

\* Mutant: the contact page is filtered with the domain of its own URL.
ContactFetchedOwnDomain(a) ==
    /\ pc[a] = "contact"
    /\ pages[a].site.contacts[scan[a]].status = "ok"
    /\ \E rev \in BOOLEAN :
         LET kept == PageStages(pages[a].site.contacts[scan[a]],
                                WebsiteDomain(ContactUrl(a, scan[a])), rev)
         IN  Return(a, [result[a] EXCEPT !.emails = ContactRecords(kept, pages[a], a)])
    /\ UNCHANGED <<filter_vars, args_workers, workers, pages, phase, album_urls, nsub, queue,
                   scan, requests, entry, results, errors, unique_results, output>>

\* The contact page was fetched (lines 329-349): text, then mailto links,
\* then break.
ContactFetched(a) ==
    /\ pc[a] = "contact"
    /\ pages[a].site.contacts[scan[a]].status = "ok"
    /\ \E rev \in BOOLEAN :
         LET kept == PageStages(pages[a].site.contacts[scan[a]], WebsiteDomain(ExtUrl(a)), rev)
         IN  Return(a, [result[a] EXCEPT !.emails = ContactRecords(kept, pages[a], a)])
    /\ UNCHANGED <<filter_vars, args_workers, workers, pages, phase, album_urls, nsub, queue, scan,
                   requests, entry, results, errors, unique_results, output>>

\* Fetching or parsing the contact page raises (lines 350-351): continue
\* with the next anchor of the main page.
ContactFailed(a) ==
    /\ pc[a] = "contact"
    /\ pages[a].site.contacts[scan[a]].status # "ok"
    /\ LET i == NextContact(pages[a].site, scan[a] + 1)
       IN  IF i # 0
           THEN /\ scan' = [scan EXCEPT ![a] = i]
                /\ requests' = [requests EXCEPT ![a] = Append(@, Request("contact", ContactUrl(a, i)))]
                /\ UNCHANGED <<pc, result, waiter>>
           ELSE /\ Return(a, result[a])
                /\ UNCHANGED <<requests, scan>>
    /\ UNCHANGED <<filter_vars, args_workers, workers, pages, phase, album_urls, nsub, queue,
                   entry, results, errors, unique_results, output>>

\* -------------------------------------------------- the filter on its own
main_vars == <<args_workers, workers, pages, phase, album_urls, nsub, queue, pc, scan,
               requests, result, entry, waiter, results, errors, unique_results, output>>

\* filter_emails_by_domain(emails, website_domain) returns kept.
FilterCall ==
    /\ filter_pc = "call"
    /\ filter_kept' = filter_emails_by_domain(filter_args.emails, filter_args.website_domain)
    /\ filter_pc' = "returned"
    /\ UNCHANGED <<main_vars, filter_args, filter_again>>

\* The filter is called again, on the list it returned.
FilterRecall ==
    /\ filter_pc = "returned"
    /\ filter_again' = filter_emails_by_domain(filter_kept, filter_args.website_domain)
    /\ filter_pc' = "recalled"
    /\ UNCHANGED <<main_vars, filter_args, filter_kept>>

FilterNext ==
    \/ FilterCall
    \/ FilterRecall

Next ==
    \/ DiscoverOk
    \/ DiscoverFail
    \/ Submit
    \/ EnterCollect
    \/ \E a \in Albums : CollectEntry(a)
    \/ CollectWaiter
    \/ LeaveExecutor
    \/ Dedup
    \/ Report
    \/ StartTask
    \/ \E a \in Albums : AlbumRateLimited(a)
    \/ \E a \in Albums : CooldownEnd(a)
    \/ \E a \in Albums : AlbumFailed(a)
    \/ \E a \in Albums : AlbumFault(a)
    \/ \E a \in Albums : AlbumFetched(a)
    \/ \E a \in Albums : ExternalFailed(a)
    \/ \E a \in Albums : ExternalFault(a)
    \/ \E a \in Albums : ExternalFetched(a)
    \/ \E a \in Albums : ContactFetched(a)
    \/ \E a \in Albums : ContactFailed(a)

Spec == Init /\ [][Next]_vars

ResolverSpec == InitResolver /\ [][Next]_vars

FilterSpec == InitFilter /\ [][FilterNext]_vars

\* ------------------------------------------------------------------ claims
Finished(a) == pc[a] \in {"done", "aggregated"}

EmailsOf(rs) == {rs[i].email : i \in DOMAIN rs}

KindRequests(a, kind) == SelectSeq(requests[a], LAMBDA q : q.kind = kind)

OnlyAlbumFetch(a) == requests[a] = <<Request("album", AlbumHref(a))>>

\* C1: once the batch has been deduplicated, no two records of the final list
\* carry the same email, and the record kept for an email is the first record
\* with that email in the aggregated results sequence.
C1_DedupFirstSeen ==
    phase \in {"report", "done"} =>
        /\ \A i, j \in DOMAIN unique_results :
              i # j => unique_results[i].email # unique_results[j].email
        /\ EmailsOf(unique_results) = EmailsOf(results)
        /\ \A i \in DOMAIN unique_results :
              \E k \in DOMAIN results :
                 /\ results[k] = unique_results[i]
                 /\ \A m \in 1..(k - 1) : results[m].email # results[k].email
        /\ phase = "done" => output.results = unique_results

\* Two tasks found the same email under different source URLs and the batch
\* is over.
C1_Witness ==
    /\ phase = "done"
    /\ \E i, j \in DOMAIN results :
          /\ i < j
          /\ results[i].email = results[j].email
          /\ results[i].source_url # results[j].source_url
          /\ results[i] \in Range(output.results)

\* C2: while a task sits in the cooldown that follows a 429, no other album
\* task begins (no queued call is started and issues its album fetch).
C2_NoStartDuringCooldown ==
    [][(\E a \in Albums : pc[a] = "cooldown")
          => \A b \in Albums : pc[b] = "queued" => pc'[b] = "queued"]_vars

\* C3: a task whose album fetch answered 429 reports rate_limited, has no
\* contacts and no error, and its only request is the one album fetch.
C3_RateLimitedStops ==
    \A a \in Albums :
        (pages[a].status = "429" /\ pc[a] \in {"cooldown", "done", "aggregated"}) =>
            /\ result[a].rate_limited
            /\ result[a].emails = <<>>
            /\ result[a].error = ""
            /\ OnlyAlbumFetch(a)

\* A rate-limited task has been aggregated and the batch is over.
C3_Witness ==
    /\ phase = "done"
    /\ \E a \in Albums : pages[a].status = "429" /\ pc[a] = "aggregated"

\* The tasks that raise, read off the page contents.
Faulting(a) ==
    \/ pages[a].status = "fault"
    \/ /\ pages[a].status = "ok"
       /\ extract_emails(pages[a].bio.text) = {}
       /\ extract_mailto_emails(AllAnchors(pages[a])) = {}
       /\ external_link(pages[a].links) # 0
       /\ pages[a].site.status = "fault"

\* Some step of the coordinator, of the pool or of a running task can be taken.
CanStep ==
    \/ phase \in {"discover", "submit", "dedup", "report"}
    \/ /\ phase = "collect"
       /\ (entry # {} \/ waiter # <<>> \/ \A a \in Submitted : pc[a] = "aggregated")
    \/ queue # <<>> /\ Cardinality(Running) < workers
    \/ \E a \in Albums :
          \/ pc[a] = "album" /\ pages[a].status \in {"429", "fail", "fault", "ok"}
          \/ pc[a] = "cooldown"
          \/ pc[a] = "external" /\ pages[a].site.status \in {"fail", "fault", "ok"}
          \/ pc[a] = "contact"

\* C4: the run never stops before the report; at the end every album task
\* has completed and been aggregated, the errors are exactly one per faulting
\* task, and a structured result is emitted.
C4_FaultsDoNotStopBatch ==
    /\ phase # "done" => CanStep
    /\ phase \in {"dedup", "report", "done"} =>
          /\ \A i \in DOMAIN album_urls : pc[album_urls[i]] = "aggregated"
          /\ album_urls # <<>> =>
                Len(errors) = Cardinality({a \in Range(album_urls) : Faulting(a)})
          /\ \A a \in Range(album_urls) : Faulting(a) <=> result[a].error # ""
    /\ phase = "done" =>
          /\ output.success
          /\ output.errors = errors
          /\ output.total_albums_scraped = Len(album_urls)

\* One task raised, another one delivered contacts, and the result is out.
C4_Witness ==
    /\ phase = "done"
    /\ \E a, b \in Albums :
          /\ Faulting(a)
          /\ result[b].emails # <<>>
          /\ output.results # <<>>
          /\ Len(output.errors) = 1

\* The Domain Trust rule: the registered domain of the address is the
\* reference domain, compared without case, or a public email provider.
Trusted(e, ref) ==
    LET d == RegisteredDomain(Lower(e.domain))
    IN  d # EmptyStr /\ (d = Lower(ref) \/ d \in PUBLIC_EMAIL_DOMAINS)

TrustedSet(S, ref) == {e \in S : Trusted(e, ref)}

VisitedExternal(a) == KindRequests(a, "external") # <<>>

\* The registered domain of the external URL the task fetched.
RefDomain(a) == RegisteredDomain(KindRequests(a, "external")[1].href.host)

AllTrusted(rs) ==
    \A i \in DOMAIN rs :
        VisitedExternal(rs[i].source_url) => Trusted(rs[i].email, RefDomain(rs[i].source_url))

\* C5: every record whose email was found on an external site (main page or
\* contact page) carries an email the Domain Trust rule accepts for that site,
\* in the task result and in every list the coordinator builds from it.
C5_ExternalEmailsTrusted ==
    /\ \A a \in Albums : AllTrusted(result[a].emails)
    /\ AllTrusted(results)
    /\ AllTrusted(unique_results)
    /\ AllTrusted(output.results)

\* An external site offered a foreign address next to an upper-case
\* same-domain one; only the latter reached the final result.
C5_Witness ==
    /\ phase = "done"
    /\ \E a \in Albums :
          /\ VisitedExternal(a)
          /\ A_other \in extract_emails(pages[a].site.text)
          /\ A_other \notin EmailsOf(output.results)
          /\ A_bandUp \in EmailsOf(output.results)

RECURSIVE SortedSeq(_)
SortedSeq(S) ==
    IF S = {} THEN <<>>
    ELSE LET m == CHOOSE x \in S : \A y \in S : x <= y
         IN  <<m>> \o SortedSeq(S \ {m})

\* The contact candidates of the external site of album a, in document order.
ContactCandidates(a) ==
    SortedSeq({i \in DOMAIN pages[a].site.anchors : IsContactCandidate(pages[a].site, i)})

\* C6 as stated: at most one contact-page fetch per external-site visit.
C6_AtMostOneContactFetch ==
    \A a \in Albums : Len(KindRequests(a, "contact")) <= 1

\* C6 amended: contact pages are fetched in document order, every fetch but
\* the last one failed (scanning stops at the first contact page that was
\* fetched and parsed), no failure is recorded as an error, and when the last
\* fetch failed too every candidate was tried and the result is empty.
C6_ScanStopsAtFirstFetchedContact ==
    \A a \in Albums :
        LET reqs  == KindRequests(a, "contact")
            cands == ContactCandidates(a)
            site  == pages[a].site
        IN  /\ Len(reqs) <= Len(cands)
            /\ \A k \in DOMAIN reqs : reqs[k].href = ContactUrl(a, cands[k])
            /\ \A k \in 1..(Len(reqs) - 1) : site.contacts[cands[k]].status # "ok"
            /\ (Finished(a) /\ reqs # <<>>) =>
                  /\ result[a].error = ""
                  /\ site.contacts[cands[Len(reqs)]].status # "ok" =>
                        (result[a].emails = <<>> /\ Len(reqs) = Len(cands))

\* The first contact fetch failed, the second one delivered emails.
C6_Witness ==
    \E a \in Albums :
        /\ Finished(a)
        /\ Len(KindRequests(a, "contact")) = 2
        /\ result[a].emails # <<>>

\* C7: with an email in the biography the contacts of the task are exactly
\* the biography emails, one record each, and the album fetch is the only
\* request of the task.
C7_BioEmailsOnly ==
    \A a \in Albums :
        (pages[a].status = "ok" /\ extract_emails(pages[a].bio.text) # {} /\ Finished(a)) =>
            /\ EmailsOf(result[a].emails) = extract_emails(pages[a].bio.text)
            /\ Len(result[a].emails) = Cardinality(extract_emails(pages[a].bio.text))
            /\ \A i \in DOMAIN result[a].emails : result[a].emails[i].source_url = a
            /\ result[a].error = ""
            /\ OnlyAlbumFetch(a)

\* A finished task whose page had biography emails, other mailto emails and
\* a qualifying external link.
C7_Witness ==
    \E a \in Albums :
        /\ Finished(a)
        /\ pages[a].status = "ok"
        /\ extract_emails(pages[a].bio.text) # {}
        /\ extract_mailto_emails(AllAnchors(pages[a])) \ extract_emails(pages[a].bio.text) # {}
        /\ external_link(pages[a].links) # 0

\* An http(s) link that has a registered domain outside the Excluded Domains.
NotExcludedLink(l) ==
    /\ l.href.scheme \in {"http", "https"}
    /\ RegisteredDomain(l.href.host) # EmptyStr
    /\ RegisteredDomain(l.href.host) \notin EXCLUDED_DOMAINS

OnExcludedDomain(l) == RegisteredDomain(l.href.host) \in EXCLUDED_DOMAINS

NothingFirstParty(a) ==
    /\ pages[a].status = "ok"
    /\ extract_emails(pages[a].bio.text) = {}
    /\ extract_mailto_emails(AllAnchors(pages[a])) = {}

\* C8: an external site is fetched only after a successful album fetch with
\* no biography and no mailto email, and then it is the first band link, in
\* document order, that is http(s) with a registered domain outside the
\* Excluded Domains, fetched once (and such a link is always visited); when
\* every band link is on an excluded domain the task ends empty, without
\* error and without external fetch.
C8_ExternalOnlyAsLastResort ==
    \A a \in Albums :
        LET links == pages[a].links
        IN  /\ VisitedExternal(a) =>
                  /\ NothingFirstParty(a)
                  /\ Len(KindRequests(a, "external")) = 1
                  /\ \E i \in DOMAIN links :
                        /\ NotExcludedLink(links[i])
                        /\ \A j \in 1..(i - 1) : ~NotExcludedLink(links[j])
                        /\ KindRequests(a, "external")[1].href = links[i].href
            /\ (Finished(a) /\ NothingFirstParty(a)
                  /\ \E i \in DOMAIN links : NotExcludedLink(links[i])) => VisitedExternal(a)
            /\ (Finished(a) /\ NothingFirstParty(a)
                  /\ \A i \in DOMAIN links : OnExcludedDomain(links[i])) =>
                  (result[a] = EmptyResult /\ OnlyAlbumFetch(a))

\* A finished task visited a band link that comes after an excluded one.
C8_Witness ==
    \E a \in Albums :
        /\ Finished(a)
        /\ VisitedExternal(a)
        /\ \E j \in DOMAIN pages[a].links :
              /\ OnExcludedDomain(pages[a].links[j])
              /\ j + 1 \in DOMAIN pages[a].links
              /\ KindRequests(a, "external")[1].href = pages[a].links[j + 1].href

\* The result of the four stages for reference domain ref: main text, main
\* mailto links, then text and mailto links of contact page cp.
FirstKeptStage(site, cp, ref) ==
    LET s1 == TrustedSet(extract_emails(site.text), ref)
        s2 == TrustedSet(extract_mailto_emails(site.anchors), ref)
        s3 == TrustedSet(extract_emails(cp.text), ref)
        s4 == TrustedSet(extract_mailto_emails(cp.anchors), ref)
    IN  IF s1 # {} THEN s1 ELSE IF s2 # {} THEN s2 ELSE IF s3 # {} THEN s3 ELSE s4

EmptyPage == PageOf("ok", <<>>, <<>>)

\* The contact page the task read: the last one fetched, if that succeeded.
ContactPageRead(a) ==
    IF KindRequests(a, "contact") # <<>> /\ pages[a].site.contacts[scan[a]].status = "ok"
    THEN pages[a].site.contacts[scan[a]]
    ELSE EmptyPage

\* C9: a finished visit of an external site whose main page was fetched
\* returns the trusted emails of the first stage, in the order main text,
\* main mailto, contact text, contact mailto, that has any; the contact page
\* is fetched only when both main stages kept nothing, and then always when
\* there is a contact candidate.
C9_StagesInOrder ==
    \A a \in Albums :
        (Finished(a) /\ VisitedExternal(a) /\ pages[a].site.status = "ok") =>
            LET site == pages[a].site
                ref  == RefDomain(a)
                main == FirstKeptStage(site, EmptyPage, ref)
            IN  /\ EmailsOf(result[a].emails) = FirstKeptStage(site, ContactPageRead(a), ref)
                /\ Len(result[a].emails) = Cardinality(EmailsOf(result[a].emails))
                /\ KindRequests(a, "contact") # <<>> => main = {}
                /\ (main = {} /\ ContactCandidates(a) # <<>>) => KindRequests(a, "contact") # <<>>

\* The main text had only untrusted emails, the main page no trusted mailto,
\* the contact text only untrusted emails, and the contact mailto links
\* delivered the result.
C9_Witness ==
    \E a \in Albums :
        /\ Finished(a)
        /\ VisitedExternal(a)
        /\ extract_emails(pages[a].site.text) # {}
        /\ FirstKeptStage(pages[a].site, EmptyPage, RefDomain(a)) = {}
        /\ extract_emails(ContactPageRead(a).text) # {}
        /\ TrustedSet(extract_emails(ContactPageRead(a).text), RefDomain(a)) = {}
        /\ result[a].emails # <<>>

\* What an album page yields, read off the page contents alone.
ExpectedEmails(page) ==
    LET bio    == extract_emails(page.bio.text)
        mailto == extract_mailto_emails(AllAnchors(page))
        cl     == {i \in DOMAIN page.links : NotExcludedLink(page.links[i])}
        site   == page.site
        okc    == {i \in DOMAIN site.anchors :
                      IsContactCandidate(site, i) /\ site.contacts[i].status = "ok"}
    IN  IF page.status # "ok" THEN {}
        ELSE IF bio # {} THEN bio
        ELSE IF mailto # {} THEN mailto
        ELSE IF cl = {} \/ site.status # "ok" THEN {}
        ELSE FirstKeptStage(site,
                 IF okc = {} THEN EmptyPage
                 ELSE site.contacts[CHOOSE i \in okc : \A j \in okc : i <= j],
                 RegisteredDomain(page.links[CHOOSE i \in cl : \A j \in cl : i <= j].href.host))

RECURSIVE InSubmissionOrder(_)
InSubmissionOrder(urls) ==
    IF urls = <<>> THEN <<>> ELSE result[Head(urls)].emails \o InSubmissionOrder(Tail(urls))

\* C10 as stated: the final records are those of the run in which the tasks
\* complete in submission order, whatever the order of completion was.
C10_SameRecordsInAnyOrder ==
    phase = "done" =>
        Range(output.results) = Range(Deduplicate(InSubmissionOrder(album_urls)))

\* C10 amended: the emails of the final list are the emails the album pages
\* yield, each exactly once, whatever the order of completion was.
C10_SameEmailsInAnyOrder ==
    phase = "done" =>
        /\ EmailsOf(output.results) = UNION {ExpectedEmails(pages[a]) : a \in Range(album_urls)}
        /\ Len(output.results) = Cardinality(EmailsOf(output.results))

\* Two albums yielded the same email and the one submitted later was
\* aggregated first.
C10_Witness ==
    /\ phase = "done"
    /\ \E i, j \in DOMAIN results :
          /\ i < j
          /\ results[i].email = results[j].email
          /\ results[i].source_url > results[j].source_url

\* C11: deduplication and the emission of the result happen only after
\* every submitted album task has completed and been aggregated: once the
\* executor block is left, no task is queued, running or finished but not
\* aggregated, and every URL was submitted; before that, nothing was
\* deduplicated or emitted.
C11_BarrierBeforeReport ==
    /\ phase \in {"dedup", "report", "done"} =>
          /\ nsub = Len(album_urls)
          /\ queue = <<>>
          /\ \A a \in Range(album_urls) : pc[a] = "aggregated"
    /\ phase \notin {"report", "done"} => unique_results = <<>>
    /\ phase # "done" => output = NoOutput

\* The barrier was passed with two tasks, the one submitted second having
\* been aggregated first.
C11_Witness ==
    /\ phase = "dedup"
    /\ Len(album_urls) = 2
    /\ results # <<>>
    /\ pc[album_urls[1]] = "aggregated"
    /\ results[1].source_url = album_urls[2]

\* C12: the emails of the album page itself are not domain-filtered: a
\* finished task whose page has biography emails returns exactly those, one
\* whose page has none but has mailto emails returns exactly those, whatever
\* their domains, and the final result carries them.
C12_FirstPartyUnfiltered ==
    \A a \in Albums :
        (Finished(a) /\ pages[a].status = "ok") =>
            LET bio    == extract_emails(pages[a].bio.text)
                mailto == extract_mailto_emails(AllAnchors(pages[a]))
                first  == IF bio # {} THEN bio ELSE mailto
            IN  first # {} =>
                    /\ EmailsOf(result[a].emails) = first
                    /\ phase = "done" => first \subseteq EmailsOf(output.results)

\* A mailto address of the album page that is on no public provider and on
\* the domain of none of the band links reached the final result.
C12_Witness ==
    /\ phase = "done"
    /\ \E a \in Albums :
          /\ extract_emails(pages[a].bio.text) = {}
          /\ A_other \in extract_mailto_emails(AllAnchors(pages[a]))
          /\ pages[a].links # <<>>
          /\ \A i \in DOMAIN pages[a].links :
                ~Trusted(A_other, RegisteredDomain(pages[a].links[i].href.host))
          /\ A_other \in EmailsOf(output.results)

\* The candidate has an "@" and the registered domain of what follows it,
\* lower-cased, is a public email provider.
OnPublicProvider(e) ==
    /\ e.domain # <<>>
    /\ RegisteredDomain(Lower(e.domain)) \in PUBLIC_EMAIL_DOMAINS

\* C13: with an empty reference domain the filter returns, and what it keeps
\* is exactly the candidates on a public email provider, in their order.
C13_EmptyReferenceKeepsPublicOnly ==
    (filter_pc \in {"returned", "recalled"} /\ filter_args.website_domain = EmptyStr) =>
        filter_kept = SelectSeq(filter_args.emails, OnPublicProvider)

\* With an empty reference, a public-provider address was kept and an address
\* on a private domain dropped.
C13_Witness ==
    /\ filter_pc = "returned"
    /\ filter_args.website_domain = EmptyStr
    /\ filter_args.emails = <<A_band, A_gmail, A_suffix>>
    /\ filter_kept = <<A_gmail>>

\* s is t with some elements left out.
RECURSIVE IsSubSeq(_, _)
IsSubSeq(s, t) ==
    IF s = <<>> THEN TRUE
    ELSE IF t = <<>> THEN FALSE
    ELSE IF Head(s) = Head(t) THEN IsSubSeq(Tail(s), Tail(t))
    ELSE IsSubSeq(s, Tail(t))

\* C16: the filter run on its own output with the same reference domain
\* returns that output unchanged, and its output is a sub-sequence of its
\* input, for every candidate list and reference domain.
C16_FilterIdempotent ==
    /\ filter_pc \in {"returned", "recalled"} => IsSubSeq(filter_kept, filter_args.emails)
    /\ filter_pc = "recalled" => filter_again = filter_kept

\* The second run returned a list of two that the first run had cut out of
\* a list of three.
C16_Witness ==
    /\ filter_pc = "recalled"
    /\ Len(filter_args.emails) = 3
    /\ Len(filter_kept) = 2
    /\ filter_kept[1] # filter_kept[2]
    /\ filter_again = filter_kept

\* C14: an album task whose album fetch failed otherwise than by HTTP 429
\* ends with no contacts, rate_limited false and no error, having issued the
\* album fetch only; the batch goes on, every URL is aggregated, and the
\* batch errors are those of the faulting tasks alone.
C14_FetchFailureIsSilent ==
    /\ \A a \in Albums :
          (Finished(a) /\ pages[a].status = "fail") =>
              /\ result[a] = EmptyResult
              /\ OnlyAlbumFetch(a)
    /\ (phase = "done" /\ album_urls # <<>>) =>
          /\ \A a \in Range(album_urls) : pc[a] = "aggregated"
          /\ Len(output.errors) = Cardinality({a \in Range(album_urls) : Faulting(a)})

\* With one worker, the first URL failed to load and the second one, run
\* after it, delivered the contacts of the final result; no error was recorded.
C14_Witness ==
    /\ phase = "done"
    /\ workers = 1
    /\ Len(album_urls) = 2
    /\ pages[album_urls[1]].status = "fail"
    /\ result[album_urls[2]].emails # <<>>
    /\ output.results = result[album_urls[2]].emails
    /\ output.errors = <<>>

DiscoveryFailed == "Discovery failed" \in Range(errors)

\* C15: after a failed discovery exactly one error is recorded, the URL list
\* is empty, no task is submitted or started and no fetch is issued, the run
\* never stops before the report, and the result emitted has no contacts and
\* zero albums scraped.
C15_DiscoveryFailureNotFatal ==
    DiscoveryFailed =>
        /\ errors = <<"Discovery failed">>
        /\ album_urls = <<>>
        /\ nsub = 0
        /\ queue = <<>>
        /\ \A a \in Albums : pc[a] = "unsubmitted" /\ requests[a] = <<>>
        /\ results = <<>>
        /\ phase # "done" => CanStep
        /\ phase = "done" =>
              output = [success |-> TRUE, total_albums_scraped |-> 0, results |-> <<>>,
                        errors |-> <<"Discovery failed">>]

\* The result is out after a failed discovery, though the site had albums.
C15_Witness ==
    /\ phase = "done"
    /\ DiscoveryFailed
    /\ Albums # {}
    /\ output.success

\* C17: the worker count is the requested one clamped to 1..10, at no time
\* do more album tasks run than that, and every album URL gets exactly one
\* task: it is queued at most once, started at most once, and has been
\* started exactly once when the batch is over.
C17_OneTaskPerUrlWithinPool ==
    /\ workers = (IF args_workers < 1 THEN 1 ELSE IF args_workers > 10 THEN 10 ELSE args_workers)
    /\ Cardinality(Running) <= workers
    /\ \A i, j \in DOMAIN album_urls : i # j => album_urls[i] # album_urls[j]
    /\ \A i, j \in DOMAIN queue : i # j => queue[i] # queue[j]
    /\ \A a \in Albums :
          /\ Len(KindRequests(a, "album")) <= 1
          /\ Len(KindRequests(a, "album")) = 1 <=> pc[a] \notin {"unsubmitted", "queued"}
          /\ pc[a] = "queued" <=> a \in Range(queue)
          /\ pc[a] # "unsubmitted" <=> a \in Submitted
    /\ phase \notin {"discover", "submit"} => Submitted = Range(album_urls)
    /\ phase = "done" => \A a \in Range(album_urls) : Len(KindRequests(a, "album")) = 1

\* A request for no worker at all was clamped to one, and the second task
\* waits in the queue while the first one runs.
C17_Witness ==
    /\ args_workers = 0
    /\ workers = 1
    /\ Cardinality(Running) = 1
    /\ queue # <<>>

\* C18: a link whose host is a member of the Excluded Domains, the host-level
\* entries included, is never handed over as the external candidate of the
\* album page and is never fetched as an external site.
C18_ExcludedHostsNeverVisited ==
    \A a \in Albums :
        \A i \in DOMAIN requests[a] :
            requests[a][i].kind = "external" =>
                Lower(requests[a][i].href.host) \notin EXCLUDED_DOMAINS

RecordsOk(rs) ==
    \A i \in DOMAIN rs :
        LET r == rs[i]
            a == r.source_url
        IN  /\ a \in Albums
            /\ r.notes.len <= 500
            /\ r.notes.len = (IF pages[a].bio.len <= 500 THEN pages[a].bio.len ELSE 500)
            /\ r.name = pages[a].name
            /\ \A j \in DOMAIN rs :
                  rs[j].source_url = a => (rs[j].name = r.name /\ rs[j].notes = r.notes)

\* C19: every record of an album task has notes of at most 500 characters,
\* the first 500 of the biography, the album URL of the task as source_url,
\* also when the email comes from the external site or its contact page, and
\* the records of one task share name and notes; so do the records of the
\* lists the coordinator builds.
C19_RecordFields ==
    /\ \A a \in Albums :
          /\ RecordsOk(result[a].emails)
          /\ \A i \in DOMAIN result[a].emails : result[a].emails[i].source_url = a
    /\ RecordsOk(results)
    /\ RecordsOk(unique_results)
    /\ RecordsOk(output.results)

\* A record of the final result comes from a contact page; its notes are
\* the first 500 characters of a longer biography and its source_url is the
\* album URL.
C19_Witness ==
    /\ phase = "done"
    /\ output.results # <<>>
    /\ \E a \in Albums :
          /\ KindRequests(a, "contact") # <<>>
          /\ pages[a].bio.len > 500
          /\ output.results[1].source_url = a
          /\ output.results[1].notes = [of |-> pages[a].bio.id, len |-> 500]

\* The registered domain of an email address, lower-cased.
EmailDomain(e) == RegisteredDomain(Lower(e.domain))

\* The four sets of emails an external visit looks at.
StageSets(a) ==
    { extract_emails(pages[a].site.text),
      extract_mailto_emails(pages[a].site.anchors),
      extract_emails(ContactPageRead(a).text),
      extract_mailto_emails(ContactPageRead(a).anchors) }

\* The registered domains of the pages the visit was served from, other than
\* that of the URL passed in: the redirect target and the contact pages.
OtherDomains(a) ==
    ({RegisteredDomain(pages[a].site.final)}
        \cup {RegisteredDomain(KindRequests(a, "contact")[i].href.host) :
                 i \in DOMAIN KindRequests(a, "contact")})
    \ {RefDomain(a)}

\* C20: the reference domain of an external visit is the registered domain
\* of the URL passed in, at every stage: what the visit returns is one of the
\* four stage sets filtered with that domain, and an email on the domain the
\* main page was redirected to, or on the domain of a contact page, is kept
\* only if it is on a public email provider.
C20_ReferenceDomainFixed ==
    \A a \in Albums :
        (Finished(a) /\ VisitedExternal(a) /\ pages[a].site.status = "ok") =>
            LET got == EmailsOf(result[a].emails)
            IN  /\ got # {} => \E S \in StageSets(a) : got = TrustedSet(S, RefDomain(a))
                /\ \A e \in got :
                      EmailDomain(e) \in OtherDomains(a) =>
                          EmailDomain(e) \in PUBLIC_EMAIL_DOMAINS

\* The main page was redirected to another domain and the contact page was
\* fetched there; its address on that domain was dropped and the one on the
\* domain of the URL passed in was kept.
C20_Witness ==
    \E a \in Albums :
        /\ Finished(a)
        /\ VisitedExternal(a)
        /\ RegisteredDomain(pages[a].site.final) # RefDomain(a)
        /\ KindRequests(a, "contact") # <<>>
        /\ RegisteredDomain(KindRequests(a, "contact")[1].href.host)
              = RegisteredDomain(pages[a].site.final)
        /\ \E e \in extract_emails(ContactPageRead(a).text) :
              /\ EmailDomain(e) = RegisteredDomain(pages[a].site.final)
              /\ e \notin EmailsOf(result[a].emails)
        /\ \E e \in EmailsOf(result[a].emails) : EmailDomain(e) = RefDomain(a)

====
